---- MODULE Spec2Model ----
(***************************************************************************)
(* A model of BatchedAgentManager (rlgym_ppo/batched_agents/               *)
(* batched_agent_manager.py): the timestep collection loop, the batched    *)
(* inference dispatcher, the round-robin collector, the episode reward     *)
(* tracker and the per-worker trajectory buffers, together with the worker *)
(* processes at the other end of the pipes.                                *)
(*                                                                         *)
(* The orchestrator is single threaded; the only points where it meets the *)
(* workers are parent_end.send_bytes and parent_end.poll/recv_bytes, so    *)
(* collect_timesteps is cut into steps exactly at those points.            *)
(***************************************************************************)
EXTENDS Integers, Sequences, FiniteSets, TLC

\* ------------------------------------------------------------------ bounds
MaxProcs == 2
MaxAgents == 2
MaxMinInf == 3
MaxN == 2
MaxCalls == 2
MaxEpisodes == 2
MaxFaults == 1
MaxNoise == 1

DoneVals == {0, 1}

VARIABLES
    \* configuration, fixed by __init__ / init_processes
    n_procs,              \* self.n_procs
    min_inference_size,   \* self.min_inference_size
    n_agents,             \* agents simulated by each worker's environment
    fault_budget,         \* how often self.policy may still break its batch-size contract
    \* BatchedAgentManager fields
    current_obs,          \* self.current_obs (None between a dispatch and the round's end)
    current_pids,         \* self.current_pids
    average_reward,       \* self.average_reward
    cumulative_timesteps, \* self.cumulative_timesteps
    ep_rews,              \* self.ep_rews
    trajectory_map,       \* self.trajectory_map
    completed_trajectories, \* self.completed_trajectories
    buffer_ptr,           \* self.buffer_ptr
    \* the frame of the running collect_timesteps / _collect_responses
    pc,                   \* "idle", "loop" (the while test of line 72), "collect"
    n,                    \* the argument of collect_timesteps
    n_collected,          \* collect_timesteps' n_collected
    next_obs,             \* next_obs of the round
    next_pids,            \* next_pids of the round
    rc,                   \* _collect_responses' n_collected
    ptr,                  \* _collect_responses' local buffer_ptr
    \* pipes and workers
    to_child,             \* bytes sent on parent_end, not yet read by the worker
    to_parent,            \* messages written by the worker, not yet received
    env_step,             \* number of environment steps each worker has taken
    stalled,              \* the worker that has stopped for good, if any
    episodes,             \* number of done messages emitted so far
    noise,                \* how many messages of another kind the workers may still emit
    \* the frame of cleanup and the worker processes it joins
    cleanup_pc,           \* "idle", "run", "done", "raised"
    cleanup_proc,         \* the entry of self.processes the loop of line 355 is at
    cleanup_op,           \* which of the four operations comes next for it
    exited,               \* the worker processes that have exited
    hung,                 \* the worker whose process never exits, if any
    \* observation of the run
    results,              \* what each finished collect_timesteps call returned
    overtaken,            \* per worker: messages of others collected while its own waited
    round_log,            \* the polls of the last n_procs finished collection rounds
    cur_round,            \* the polls of the running collection round
    carried,              \* the transitions that were in flight when a call returned
    dispatched,           \* the batch sizes of the last dispatch: rows given, rows returned
    emitted,              \* per worker: the rewards and done flag of every step it has answered
    cleanup_log           \* the operations cleanup has attempted, with their outcomes

vars == <<n_procs, min_inference_size, n_agents, fault_budget,
          current_obs, current_pids, average_reward, cumulative_timesteps,
          ep_rews, trajectory_map, completed_trajectories, buffer_ptr,
          pc, n, n_collected, next_obs, next_pids, rc, ptr,
          to_child, to_parent, env_step, stalled, episodes,
          noise, cleanup_pc, cleanup_proc, cleanup_op, exited, hung,
          results, overtaken, round_log, cur_round, carried, dispatched,
          emitted, cleanup_log>>

\* ----------------------------------------------------------------- helpers
None == <<>>
Some(v) == <<v>>

Min(a, b) == IF a <= b THEN a ELSE b
Max(a, b) == IF a >= b THEN a ELSE b

Procs == 0 .. (n_procs - 1)

\* Python's s[a:b] for 0 <= a <= b: both ends are clipped to the length.
Slice(s, a, b) ==
    LET lo == Min(a, Len(s))
        hi == Min(b, Len(s))
    IN  [j \in 1 .. (hi - lo) |-> s[lo + j]]

RECURSIVE Concat(_)
Concat(blocks) ==
    IF blocks = <<>> THEN <<>> ELSE Head(blocks) \o Concat(Tail(blocks))

\* comm_consts: the message kinds, each header by its name
POLICY_ACTIONS_HEADER == "policy_actions"
ENV_STEP_DATA_HEADER == "env_step_data"
ENV_RESET_STATE_HEADER == "env_reset_state"
ENV_SHAPES_HEADER == "env_shapes"
STOP_MESSAGE_HEADER == "stop"

\* An observation row: agent i of worker w after its k-th environment step
\* (k = 0 is the reset state).
ObsRow(w, k, i) == <<w, k, i>>
ObsBlock(w, k) == [i \in 1 .. n_agents[w] |-> ObsRow(w, k, i)]

\* The reward the environment of worker w pays agent i for its k-th step:
\* 1 or 2, alternating along the steps and across the agents.
EnvReward(w, k, i) == ((w + k + i) % 2) + 1

\* ------------------------------------------------------- trajectory buffer
BatchedTrajectory ==
    [state |-> None, action |-> None, log_prob |-> None,
     reward |-> None, next_state |-> None, done |-> None,
     complete_timesteps |-> <<>>]

TimestepReady(t) ==
    /\ t.state # None /\ t.action # None /\ t.log_prob # None
    /\ t.reward # None /\ t.next_state # None /\ t.done # None

\* BatchedTrajectory.update(): the buffer afterwards, and the value returned.
UpdateBuffer(t) ==
    IF TimestepReady(t)
    THEN [BatchedTrajectory EXCEPT !.complete_timesteps =
            Append(t.complete_timesteps,
                   [state |-> t.state[1], action |-> t.action[1],
                    log_prob |-> t.log_prob[1], reward |-> t.reward[1],
                    next_state |-> t.next_state[1], done |-> t.done[1]])]
    ELSE t

UpdateResult(t) == TimestepReady(t) /\ t.done[1] # 0

Row(block, i) == IF i \in DOMAIN block THEN block[i] ELSE None

\* BatchedTrajectory.get_all(): one sequence of six per-field lists per agent.
GetAll(t) ==
    LET ts == t.complete_timesteps
    IN  IF Len(ts) = 0 THEN <<>>
        ELSE [i \in 1 .. Len(ts[1].state) |->
                [states      |-> [j \in 1 .. Len(ts) |-> Row(ts[j].state, i)],
                 actions     |-> [j \in 1 .. Len(ts) |-> Row(ts[j].action, i)],
                 log_probs   |-> [j \in 1 .. Len(ts) |-> Row(ts[j].log_prob, i)],
                 rewards     |-> [j \in 1 .. Len(ts) |-> Row(ts[j].reward, i)],
                 next_states |-> [j \in 1 .. Len(ts) |-> Row(ts[j].next_state, i)],
                 dones       |-> [j \in 1 .. Len(ts) |-> ts[j].done]]]

\* ----------------------------------------------------------- reward tracker
RECURSIVE Pow10(_)
Pow10(e) == IF e = 0 THEN 1 ELSE 10 * Pow10(e - 1)

\* The average is the exact decimal num / 10^exp.
AvgSeed(total) == [num |-> total, exp |-> 0]
AvgSmooth(avg, total) ==
    [num |-> avg.num * 9 + total * Pow10(avg.exp), exp |-> avg.exp + 1]

RECURSIVE SmoothAll(_, _)
SmoothAll(avg, totals) ==
    IF totals = <<>> THEN avg
    ELSE SmoothAll(AvgSmooth(avg, Head(totals)), Tail(totals))

\* lines 225 and 229 with = for +=: the accumulator keeps the last reward only
AddRewardsOverwrite(acc, rews, k) ==
    [i \in 1 .. Max(Len(acc), k) |-> IF i <= k THEN rews[i] ELSE acc[i]]

\* lines 219-229: the worker's accumulator after adding a message's rewards
AddRewards(acc, rews, k) ==
    IF k > 1
    THEN [i \in 1 .. Max(Len(acc), k) |->
            IF i > Len(acc) THEN rews[i]
            ELSE IF i <= k THEN acc[i] + rews[i] ELSE acc[i]]
    ELSE [acc EXCEPT ![1] = acc[1] + rews[1]]

\* lines 231-236: the global average after an episode with these totals ends
AverageOnDone(avg, totals) ==
    IF avg = None THEN Some(AvgSeed(totals[1]))
    ELSE Some(SmoothAll(avg[1], totals))

\* ------------------------------------------------------------ the policy
\* self.policy.get_action(inference_batch): one action row and one
\* log-probability row per observation row.  A policy that breaks its
\* contract returns d rows more (or less) than it was given.
PadRow == <<0 - 1, 0, 0>>
Act(row) == [act |-> row]
LogP(row) == [logp |-> row]
PolicyActions(batch, d) ==
    [j \in 1 .. Max(0, Len(batch) + d) |->
        IF j <= Len(batch) THEN Act(batch[j]) ELSE Act(PadRow)]
PolicyLogProbs(batch, d) ==
    [j \in 1 .. Max(0, Len(batch) + d) |->
        IF j <= Len(batch) THEN LogP(batch[j]) ELSE LogP(PadRow)]

\* <<da, dl>>: how many rows the action batch and the log-probability batch
\* are off; a broken policy returns both one row short, both one row long,
\* or one of them one row short.
PolicyDeltas ==
    IF fault_budget = 0 THEN {<<0, 0>>}
    ELSE {<<0, 0>>, <<0 - 1, 0 - 1>>, <<1, 1>>, <<0 - 1, 0>>, <<0, 0 - 1>>}

\* -------------------------------------------------------------- dispatcher
\* lines 146-148
Dimensions(obs) == [i \in 1 .. Len(obs) |-> Len(obs[i])]

\* line 163: the message a worker is sent
PolicyActionsMessage(action) == [header |-> POLICY_ACTIONS_HEADER, payload |-> action]

\* line 169 with the offset moved on by one row, whatever the block's size
StepAfterByOne(step, dim_0) == step + 1

\* line 169: where the next worker's slice starts
StepAfter(step, dim_0) == step + dim_0

\* lines 154-169: the loop over zip(current_pids, dimensions); acc holds the
\* trajectory map and the pipes as the loop has left them so far.
RECURSIVE SendLoop(_, _, _, _, _, _, _, _)
SendLoop(i, step, pids, dims, batch, actions, log_probs, acc) ==
    IF i > Min(Len(pids), Len(dims)) THEN acc
    ELSE LET proc_id == pids[i]
             stop == step + dims[i]
             state == Slice(batch, step, stop)
             action == Slice(actions, step, stop)
             logp == Slice(log_probs, step, stop)
         IN  SendLoop(i + 1, StepAfter(step, dims[i]), pids, dims, batch, actions, log_probs,
                 [tm |-> [acc.tm EXCEPT ![proc_id] =
                            [@ EXCEPT !.action = Some(action),
                                      !.log_prob = Some(logp),
                                      !.state = Some(state)]],
                  ch |-> [acc.ch EXCEPT ![proc_id] =
                            Append(@, PolicyActionsMessage(action))]])

\* _send_actions with the policy answering da / dl rows off
SendActions(da, dl) ==
    IF current_obs = None
    THEN UNCHANGED <<current_obs, trajectory_map, to_child, dispatched, fault_budget>>
    ELSE LET obs == current_obs[1]
             inference_batch == Concat(obs)
             sent == SendLoop(1, 0, current_pids, Dimensions(obs), inference_batch,
                              PolicyActions(inference_batch, da),
                              PolicyLogProbs(inference_batch, dl),
                              [tm |-> trajectory_map, ch |-> to_child])
         IN  /\ trajectory_map' = sent.tm
             /\ to_child' = sent.ch
             /\ current_obs' = None
             /\ dispatched' = [rows |-> Len(inference_batch),
                               actions |-> Len(PolicyActions(inference_batch, da)),
                               log_probs |-> Len(PolicyLogProbs(inference_batch, dl))]
             /\ fault_budget' = IF da = 0 /\ dl = 0 THEN fault_budget
                                ELSE fault_budget - 1

\* --------------------------------------------------------------- collector
\* lines 68-69 without the bound by the number of workers
NObsUnbounded == min_inference_size

\* lines 68-69
NObsPerInference == Min(min_inference_size, Max(1, n_procs))

\* line 182: where a collection round starts polling
StartPtr == buffer_ptr

\* line 246 left out: the cursor a round reached is not kept
SavedPtrLost == buffer_ptr

\* line 246: the cursor kept for the next round
SavedPtr == ptr

\* lines 193-195 with a cursor that never moves
NextPtrStuck(p) == p

\* lines 193-195
NextPtr(p) == IF p + 1 >= n_procs THEN 0 ELSE p + 1

\* lines 197-198 with a poll that waits on the worker under the cursor
AfterMissBlocks(p) == p

\* lines 193-198: the cursor after a poll that found nothing
AfterMiss(p) == NextPtr(p)

\* line 205 left out: every message is read as env-step-data
HeaderUnchecked(msg) == TRUE

\* line 205: the header test
IsStepData(msg) == msg.header = ENV_STEP_DATA_HEADER

\* lines 207-213: the agent count a message's state shape declares
MsgAgents(msg) == IF Len(msg.shape) = 1 THEN 1 ELSE msg.shape[1]

\* ----------------------------------------------------------- trajectories
\* line 136 left out: a buffer that has seen done stays in the map
SyncMapKeeps(tm) == [p \in DOMAIN tm |-> UpdateBuffer(tm[p])]

\* _sync_trajectories, lines 132-136
SyncMap(tm) ==
    [p \in DOMAIN tm |->
        IF UpdateResult(tm[p]) THEN BatchedTrajectory ELSE UpdateBuffer(tm[p])]

RECURSIVE SyncCompleted(_, _, _)
SyncCompleted(p, tm, completed) ==
    IF p >= n_procs THEN completed
    ELSE SyncCompleted(p + 1, tm,
            IF UpdateResult(tm[p]) THEN Append(completed, UpdateBuffer(tm[p]))
            ELSE completed)

\* lines 87-89: every buffer of the map is closed and replaced
RECURSIVE BoundaryCompleted(_, _, _)
BoundaryCompleted(p, tm, completed) ==
    IF p >= n_procs THEN completed
    ELSE BoundaryCompleted(p + 1, tm, Append(completed, tm[p]))

\* lines 105-106 with the final record always flagged
TruncatedAlways(dones) ==
    [j \in 1 .. Len(dones) |-> IF j = Len(dones) THEN 1 ELSE 0]

\* lines 105-106
Truncated(dones) ==
    [j \in 1 .. Len(dones) |->
        IF j = Len(dones) THEN (IF dones[j] = 0 THEN 1 ELSE 0) ELSE 0]

WithTruncated(trajs) ==
    [i \in 1 .. Len(trajs) |->
        [states |-> trajs[i].states, actions |-> trajs[i].actions,
         log_probs |-> trajs[i].log_probs, rewards |-> trajs[i].rewards,
         next_states |-> trajs[i].next_states, dones |-> trajs[i].dones,
         truncated |-> Truncated(trajs[i].dones)]]

\* lines 91-113: the segments in the order they are flattened
RECURSIVE Segments(_)
Segments(completed) ==
    IF completed = <<>> THEN <<>>
    ELSE WithTruncated(GetAll(Head(completed))) \o Segments(Tail(completed))

EmptyArrays ==
    [states |-> <<>>, actions |-> <<>>, log_probs |-> <<>>, rewards |-> <<>>,
     next_states |-> <<>>, dones |-> <<>>, truncated |-> <<>>]

\* lines 107-113: one output array, the segments' lists of field f on end
RECURSIVE FlatField(_, _)
FlatField(segs, f) ==
    IF segs = <<>> THEN <<>> ELSE Head(segs)[f] \o FlatField(Tail(segs), f)

\* lines 107-113: the seven output arrays
Flatten(segs) == [f \in DOMAIN EmptyArrays |-> FlatField(segs, f)]

\* -------------------------------------------------------------------- Init
\* The manager after __init__ and init_processes: n_procs workers spawned,
\* an accumulator and an empty buffer per worker, and every worker's reset
\* state gathered by _get_initial_states, in worker order.
InitManager ==
    /\ n_procs \in 1 .. MaxProcs
    /\ min_inference_size \in 1 .. MaxMinInf
    /\ n_agents \in [Procs -> 1 .. MaxAgents]
    /\ current_obs = Some([i \in 1 .. n_procs |-> ObsBlock(i - 1, 0)])
    /\ current_pids = [i \in 1 .. n_procs |-> i - 1]
    /\ average_reward = None
    /\ cumulative_timesteps = 0
    /\ ep_rews = [p \in Procs |-> <<0>>]
    /\ trajectory_map = [p \in Procs |-> BatchedTrajectory]
    /\ completed_trajectories = <<>>
    /\ buffer_ptr = 0
    /\ pc = "idle" /\ n = 0 /\ n_collected = 0
    /\ next_obs = <<>> /\ next_pids = <<>> /\ rc = 0 /\ ptr = 0
    /\ to_child = [p \in Procs |-> <<>>]
    /\ to_parent = [p \in Procs |-> <<>>]
    /\ env_step = [p \in Procs |-> 0]
    /\ stalled = 0 - 1
    /\ episodes = 0
    /\ cleanup_pc = "idle" /\ cleanup_proc = 0 /\ cleanup_op = 1
    /\ exited = {}
    /\ results = <<>>
    /\ overtaken = [p \in Procs |-> 0]
    /\ round_log = <<>>
    /\ cur_round = [visited |-> {}, allhit |-> TRUE]
    /\ carried = {}
    /\ dispatched = [rows |-> 0, actions |-> 0, log_probs |-> 0]
    /\ emitted = [p \in Procs |-> <<>>]
    /\ cleanup_log = <<>>

\* The policy honours its contract (both outputs as long as the batch), the
\* workers emit env-step-data only and every worker process can exit.
Init == InitManager /\ fault_budget = 0 /\ noise = 0 /\ hung = 0 - 1

config == <<n_procs, min_inference_size, n_agents>>
frame == <<n, n_collected, next_obs, next_pids, rc, ptr>>
workers == <<to_parent, env_step, stalled, episodes>>
tracker == <<average_reward, ep_rews>>
rounds == <<overtaken, round_log, cur_round>>
ghost == <<carried, dispatched, fault_budget>>
shutdown == <<cleanup_pc, cleanup_proc, cleanup_op, exited, hung, cleanup_log>>

\* line 72 with the loop entered once more when the count is just reached
LoopTestRunsOver == n_collected <= n

\* line 72 with the loop left one timestep early
LoopTestStopsEarly == n_collected + 1 < n

\* line 72: the test of the collection loop
LoopTest == n_collected < n

\* the env-step-data messages waiting in a channel
StepData(q) == {j \in DOMAIN q : q[j].header = ENV_STEP_DATA_HEADER}

\* the transitions of worker w the collector has received
Collected(w) == env_step[w] - Cardinality(StepData(to_parent[w]))

\* lines 73-74 left out of the loop: the lists of the round before are kept
StaleRound == [obs |-> next_obs, pids |-> next_pids]

\* lines 73-74: the lists a round fills
FreshRound == [obs |-> <<>>, pids |-> <<>>]

\* line 89 left out: the buffers stay in the map
BoundaryMapKept == trajectory_map

\* line 89: every worker gets a new buffer
BoundaryMap == [p \in Procs |-> BatchedTrajectory]

\* ----------------------------------------------------------------- actions
\* collect_timesteps(nn) is called: lines 58-69
CollectTimesteps(nn) ==
    /\ pc = "idle"
    /\ Len(results) < MaxCalls
    /\ pc' = "loop"
    /\ n' = nn
    /\ n_collected' = 0
    /\ UNCHANGED <<config, current_obs, current_pids, cumulative_timesteps,
                   trajectory_map, completed_trajectories, buffer_ptr,
                   next_obs, next_pids, rc, ptr, to_child, workers, tracker,
                   results, rounds, ghost, noise, emitted, shutdown>>

\* lines 72-80 and 181-186: the loop goes on, dispatches the current
\* observations and enters _collect_responses
LoopSend ==
    /\ pc = "loop"
    /\ LoopTest
    /\ \E d \in PolicyDeltas : SendActions(d[1], d[2])
    /\ next_obs' = FreshRound.obs
    /\ next_pids' = FreshRound.pids
    /\ rc' = 0
    /\ ptr' = StartPtr
    /\ cur_round' = [visited |-> {}, allhit |-> TRUE]
    /\ pc' = "collect"
    /\ UNCHANGED <<config, current_pids, cumulative_timesteps,
                   completed_trajectories, buffer_ptr, n, n_collected,
                   workers, tracker, results, overtaken, round_log, carried,
                   noise, emitted, shutdown>>

\* lines 188-198: one poll that finds nothing to receive
PollEmpty ==
    /\ pc = "collect"
    /\ rc < NObsPerInference
    /\ to_parent[ptr] = <<>>
    /\ ptr' = AfterMiss(ptr)
    /\ cur_round' = [visited |-> cur_round.visited \cup {ptr}, allhit |-> FALSE]
    /\ UNCHANGED <<config, current_obs, current_pids, cumulative_timesteps,
                   trajectory_map, completed_trajectories, buffer_ptr,
                   pc, n, n_collected, next_obs, next_pids, rc,
                   to_child, workers, tracker, results, overtaken, round_log, ghost,
                   noise, emitted, shutdown>>

\* lines 188-244: one poll that receives an env-step-data message
PollStepData ==
    /\ pc = "collect"
    /\ rc < NObsPerInference
    /\ to_parent[ptr] # <<>>
    /\ IsStepData(Head(to_parent[ptr]))
    /\ LET proc_id == ptr
           msg == Head(to_parent[proc_id])
           k == MsgAgents(msg)
           totals == AddRewards(ep_rews[proc_id], msg.rews, k)
           rews == IF k > 1 THEN msg.rews ELSE <<msg.rews[1]>>
       IN  /\ ptr' = NextPtr(ptr)
           /\ to_parent' = [to_parent EXCEPT ![proc_id] = Tail(@)]
           /\ rc' = rc + k
           /\ average_reward' = IF msg.done # 0
                                THEN AverageOnDone(average_reward, totals)
                                ELSE average_reward
           /\ ep_rews' = [ep_rews EXCEPT ![proc_id] =
                            IF msg.done # 0 THEN <<0>> ELSE totals]
           /\ next_obs' = Append(next_obs, msg.obs)
           /\ next_pids' = Append(next_pids, proc_id)
           /\ trajectory_map' = [trajectory_map EXCEPT ![proc_id] =
                                   [@ EXCEPT !.reward = Some(rews),
                                             !.next_state = Some(msg.obs),
                                             !.done = Some(msg.done)]]
           /\ overtaken' = [w \in Procs |->
                              IF w # proc_id /\ to_parent[w] # <<>>
                              THEN overtaken[w] + 1
                              ELSE IF w = proc_id THEN 0 ELSE overtaken[w]]
           /\ cur_round' = [cur_round EXCEPT !.visited = @ \cup {proc_id}]
    /\ UNCHANGED <<config, current_obs, current_pids, cumulative_timesteps,
                   completed_trajectories, buffer_ptr, pc, n, n_collected,
                   to_child, env_step, stalled, episodes, results, round_log, ghost,
                   noise, emitted, shutdown>>

\* lines 188-205: one poll that receives a message of another kind; nothing
\* but the cursor and the channel changes
PollOther ==
    /\ pc = "collect"
    /\ rc < NObsPerInference
    /\ to_parent[ptr] # <<>>
    /\ ~IsStepData(Head(to_parent[ptr]))
    /\ ptr' = NextPtr(ptr)
    /\ to_parent' = [to_parent EXCEPT ![ptr] = Tail(@)]
    /\ cur_round' = [cur_round EXCEPT !.visited = @ \cup {ptr}]
    /\ UNCHANGED <<config, current_obs, current_pids, cumulative_timesteps,
                   trajectory_map, completed_trajectories, buffer_ptr,
                   pc, n, n_collected, next_obs, next_pids, rc,
                   to_child, env_step, stalled, episodes, tracker, results,
                   overtaken, round_log, ghost, noise, emitted, shutdown>>

\* lines 246-248 and 80-84: the round has its minimum count
EndRound ==
    /\ pc = "collect"
    /\ rc >= NObsPerInference
    /\ buffer_ptr' = SavedPtr
    /\ n_collected' = n_collected + rc
    /\ current_obs' = Some(next_obs)
    /\ current_pids' = next_pids
    /\ trajectory_map' = SyncMap(trajectory_map)
    /\ completed_trajectories' =
           SyncCompleted(0, trajectory_map, completed_trajectories)
    /\ round_log' = LET all == Append(round_log, cur_round)
                    IN  IF Len(all) > n_procs THEN Tail(all) ELSE all
    /\ pc' = "loop"
    /\ UNCHANGED <<config, cumulative_timesteps, n, next_obs, next_pids, rc, ptr,
                   to_child, workers, tracker, results, overtaken, cur_round, ghost,
                   noise, emitted, shutdown>>

\* lines 86-130: the loop is over; close every buffer, flatten, return
Return ==
    /\ pc = "loop"
    /\ ~LoopTest
    /\ \E completed \in {BoundaryCompleted(0, trajectory_map, completed_trajectories)} :
       \E segs \in {Segments(completed)} :
           /\ completed_trajectories' = completed
           /\ trajectory_map' = BoundaryMap
           /\ results' = Append(results,
                            [arrays |-> Flatten(segs), segments |-> segs,
                             n |-> n, n_collected |-> n_collected])
    /\ cumulative_timesteps' = cumulative_timesteps + n_collected
    /\ carried' = carried \cup
           {<<w, Collected(w) + 1>> : w \in {v \in Procs : to_child[v] # <<>> \/ to_parent[v] # <<>>}}
    /\ pc' = "idle"
    /\ UNCHANGED <<config, current_obs, current_pids, buffer_ptr, frame,
                   to_child, workers, tracker, rounds, dispatched, fault_budget,
                   noise, emitted, shutdown>>

\* A worker reads the action block it was sent, steps its environment and
\* answers with one env-step-data message.
WorkerStep(w) ==
    /\ w # stalled
    /\ to_child[w] # <<>>
    /\ to_child' = [to_child EXCEPT ![w] = Tail(@)]
    /\ env_step' = [env_step EXCEPT ![w] = @ + 1]
    /\ \E done \in DoneVals :
          /\ done # 0 => episodes < MaxEpisodes
          /\ episodes' = IF done # 0 THEN episodes + 1 ELSE episodes
          /\ to_parent' = [to_parent EXCEPT ![w] = Append(@,
                [header |-> ENV_STEP_DATA_HEADER,
                 done |-> done,
                 shape |-> IF n_agents[w] = 1 THEN <<1>> ELSE <<n_agents[w], 1>>,
                 rews |-> [i \in 1 .. n_agents[w] |-> EnvReward(w, env_step[w] + 1, i)],
                 obs |-> ObsBlock(w, env_step[w] + 1)])]
          /\ emitted' = [emitted EXCEPT ![w] = Append(@,
                [rews |-> [i \in 1 .. n_agents[w] |-> EnvReward(w, env_step[w] + 1, i)],
                 done |-> done])]
    /\ overtaken' = [overtaken EXCEPT ![w] = 0]
    /\ UNCHANGED <<config, current_obs, current_pids, cumulative_timesteps,
                   trajectory_map, completed_trajectories, buffer_ptr,
                   pc, frame, stalled, tracker, results, round_log, cur_round, ghost,
                   noise, shutdown>>

Orchestrator ==
    \/ \E nn \in 0 .. MaxN : CollectTimesteps(nn)
    \/ LoopSend
    \/ PollEmpty
    \/ PollStepData
    \/ EndRound
    \/ Return

Next ==
    \/ Orchestrator
    \/ \E w \in Procs : WorkerStep(w)

Spec == Init /\ [][Next]_vars

\* The running call goes on executing, and every worker that has an action
\* to answer answers it.
Running == LoopSend \/ PollEmpty \/ PollStepData \/ EndRound \/ Return

Fairness ==
    /\ WF_vars(Running)
    /\ \A w \in 0 .. (MaxProcs - 1) : WF_vars(w \in Procs /\ WorkerStep(w))

SpecLive == Init /\ [][Next]_vars /\ Fairness

\* One worker may stop for good at any moment; it never steps again.
Stall(w) ==
    /\ stalled = 0 - 1
    /\ stalled' = w
    /\ UNCHANGED <<config, current_obs, current_pids, cumulative_timesteps,
                   trajectory_map, completed_trajectories, buffer_ptr,
                   pc, frame, to_child, to_parent, env_step, episodes,
                   tracker, results, rounds, ghost, noise, emitted,
                   cleanup_pc, cleanup_proc, cleanup_op, exited, hung, cleanup_log>>

NextStall ==
    \/ Next
    \/ \E w \in Procs : Stall(w)

SpecStall == Init /\ [][NextStall]_vars /\ Fairness

\* The kinds of message a worker writes besides env-step-data.
OtherHeaders == {ENV_RESET_STATE_HEADER, ENV_SHAPES_HEADER}

\* A worker writes a message of another kind; read by the layout of
\* env-step-data its payload is a done flag, a shape, a reward and a state.
WorkerOther(w, h) ==
    /\ noise > 0
    /\ w # stalled
    /\ noise' = noise - 1
    /\ to_parent' = [to_parent EXCEPT ![w] = Append(@,
          [header |-> h, done |-> 1, shape |-> <<1>>, rews |-> <<1>>,
           obs |-> <<PadRow>>])]
    /\ UNCHANGED <<config, current_obs, current_pids, cumulative_timesteps,
                   trajectory_map, completed_trajectories, buffer_ptr,
                   pc, frame, to_child, env_step, stalled, episodes,
                   tracker, results, rounds, ghost, emitted, shutdown>>

NextNoise ==
    \/ Next
    \/ PollOther
    \/ \E w \in Procs : \E h \in OtherHeaders : WorkerOther(w, h)

InitNoise ==
    InitManager /\ fault_budget = 0 /\ noise = MaxNoise /\ hung = 0 - 1
SpecNoise == InitNoise /\ [][NextNoise]_vars

\* ----------------------------------------------------------------- cleanup
\* lines 357-374: the four operations, in the order cleanup attempts them
CleanupOps == <<"send_stop", "close_parent", "close_child", "join">>

\* lines 371-374 without the except: a failing join leaves cleanup
HandledButJoin(op) == op # "join"

\* lines 357-374: each of the four operations sits in a try with a bare except
Handled(op) == op \in {"send_stop", "close_parent", "close_child", "join"}

\* cleanup() is called on the idle manager: line 355
Cleanup ==
    /\ pc = "idle"
    /\ cleanup_pc = "idle"
    /\ cleanup_pc' = "run"
    /\ cleanup_proc' = 0
    /\ cleanup_op' = 1
    /\ UNCHANGED <<config, current_obs, current_pids, cumulative_timesteps,
                   trajectory_map, completed_trajectories, buffer_ptr,
                   pc, frame, to_child, workers, tracker, results, rounds,
                   ghost, noise, emitted, exited, hung, cleanup_log>>

\* One operation of the loop body has been attempted with this outcome
\* ("ok" or "raised"): an error that is handled is printed and the loop goes
\* on with the next operation, or the next worker after the join.
Attempted(outcome) ==
    /\ cleanup_log' = Append(cleanup_log,
          [proc |-> cleanup_proc, op |-> CleanupOps[cleanup_op], outcome |-> outcome])
    /\ IF outcome = "raised" /\ ~Handled(CleanupOps[cleanup_op])
       THEN cleanup_pc' = "raised" /\ UNCHANGED <<cleanup_proc, cleanup_op>>
       ELSE /\ cleanup_pc' = cleanup_pc
            /\ IF cleanup_op < Len(CleanupOps)
               THEN cleanup_op' = cleanup_op + 1 /\ cleanup_proc' = cleanup_proc
               ELSE cleanup_op' = 1 /\ cleanup_proc' = cleanup_proc + 1

AtOp(op) ==
    /\ cleanup_pc = "run"
    /\ cleanup_proc < n_procs
    /\ CleanupOps[cleanup_op] = op

\* lines 357-362
SendStop ==
    /\ AtOp("send_stop")
    /\ \E outcome \in {"ok", "raised"} :
          /\ Attempted(outcome)
          /\ to_child' = IF outcome = "ok"
                         THEN [to_child EXCEPT ![cleanup_proc] = Append(@,
                                 [header |-> STOP_MESSAGE_HEADER, payload |-> <<>>])]
                         ELSE to_child
    /\ UNCHANGED <<config, current_obs, current_pids, cumulative_timesteps,
                   trajectory_map, completed_trajectories, buffer_ptr,
                   pc, frame, workers, tracker, results, rounds,
                   ghost, noise, emitted, exited, hung>>

\* lines 363-366
CloseParent ==
    /\ AtOp("close_parent")
    /\ \E outcome \in {"ok", "raised"} : Attempted(outcome)
    /\ UNCHANGED <<config, current_obs, current_pids, cumulative_timesteps,
                   trajectory_map, completed_trajectories, buffer_ptr,
                   pc, frame, to_child, workers, tracker, results, rounds,
                   ghost, noise, emitted, exited, hung>>

\* lines 367-370
CloseChild ==
    /\ AtOp("close_child")
    /\ \E outcome \in {"ok", "raised"} : Attempted(outcome)
    /\ UNCHANGED <<config, current_obs, current_pids, cumulative_timesteps,
                   trajectory_map, completed_trajectories, buffer_ptr,
                   pc, frame, to_child, workers, tracker, results, rounds,
                   ghost, noise, emitted, exited, hung>>

\* lines 371-374: process.join() has no timeout; it returns once the process
\* has exited, may raise at once, and does neither for a process that never
\* exits.
JoinProcess ==
    /\ AtOp("join")
    /\ \/ cleanup_proc \in exited /\ Attempted("ok")
       \/ cleanup_proc # hung /\ Attempted("raised")
    /\ UNCHANGED <<config, current_obs, current_pids, cumulative_timesteps,
                   trajectory_map, completed_trajectories, buffer_ptr,
                   pc, frame, to_child, workers, tracker, results, rounds,
                   ghost, noise, emitted, exited, hung>>

\* line 355: the loop over self.processes is exhausted, cleanup returns
CleanupReturn ==
    /\ cleanup_pc = "run"
    /\ cleanup_proc >= n_procs
    /\ cleanup_pc' = "done"
    /\ UNCHANGED <<config, current_obs, current_pids, cumulative_timesteps,
                   trajectory_map, completed_trajectories, buffer_ptr,
                   pc, frame, to_child, workers, tracker, results, rounds,
                   ghost, noise, emitted, cleanup_proc, cleanup_op, exited,
                   hung, cleanup_log>>

\* A worker process exits once cleanup has dealt with its channel (it has
\* read the stop message, or found the channel gone), unless it is the one
\* that never exits.
WorkerExit(w) ==
    /\ w # hung
    /\ w \notin exited
    /\ \E j \in DOMAIN cleanup_log :
          cleanup_log[j].proc = w /\ cleanup_log[j].op = "send_stop"
    /\ exited' = exited \cup {w}
    /\ UNCHANGED <<config, current_obs, current_pids, cumulative_timesteps,
                   trajectory_map, completed_trajectories, buffer_ptr,
                   pc, frame, to_child, workers, tracker, results, rounds,
                   ghost, noise, emitted, cleanup_pc, cleanup_proc, cleanup_op,
                   hung, cleanup_log>>

CleanupStep == SendStop \/ CloseParent \/ CloseChild \/ JoinProcess \/ CleanupReturn

NextCleanup ==
    \/ Cleanup
    \/ SendStop
    \/ CloseParent
    \/ CloseChild
    \/ JoinProcess
    \/ CleanupReturn
    \/ \E w \in Procs : WorkerExit(w)

\* cleanup, once called, goes on executing; a process that can exit does.
FairCleanup ==
    /\ WF_vars(CleanupStep)
    /\ \A w \in 0 .. (MaxProcs - 1) : WF_vars(w \in Procs /\ WorkerExit(w))

\* The manager after init_processes, one of whose workers may never exit.
InitCleanup ==
    /\ InitManager /\ fault_budget = 0 /\ noise = 0
    /\ hung \in {0 - 1} \cup Procs
SpecCleanup == InitCleanup /\ [][NextCleanup]_vars /\ FairCleanup

\* A policy that may break its batch-size contract, MaxFaults times.
InitBadPolicy ==
    InitManager /\ fault_budget = MaxFaults /\ noise = 0 /\ hung = 0 - 1
SpecBadPolicy == InitBadPolicy /\ [][Next]_vars

\* ------------------------------------------------------------------ claims
\* C3: every collect_timesteps(n) that returns reports n_collected >= n.
C3_CollectedAtLeastN ==
    \A c \in DOMAIN results : results[c].n_collected >= results[c].n

C3_Witness ==
    \E c \in DOMAIN results :
        /\ results[c].n = MaxN
        /\ results[c].n_collected > results[c].n

\* C4: in every returned segment the final record is flagged truncated
\* exactly when it is not done, and no other way: a terminal final step has
\* truncation 0, a final step cut by the collection boundary has truncation 1.
C4_TruncationIffNotDone ==
    \A c \in DOMAIN results :
        \A j \in DOMAIN results[c].segments :
            LET s == results[c].segments[j]
                last == Len(s.dones)
            IN  /\ last >= 1
                /\ Len(s.truncated) = last
                /\ s.truncated[last] \in {0, 1}
                /\ s.truncated[last] = 1 <=> s.dones[last] = 0

C4_Witness ==
    \E c \in DOMAIN results :
        /\ \E j \in DOMAIN results[c].segments :
              LET s == results[c].segments[j]
              IN  s.dones[Len(s.dones)] = 1 /\ s.truncated[Len(s.dones)] = 0
        /\ \E j \in DOMAIN results[c].segments :
              LET s == results[c].segments[j]
              IN  s.dones[Len(s.dones)] = 0 /\ s.truncated[Len(s.dones)] = 1

\* ------------------------------------------------- C1, C2: attribution
\* how often the record of agent i of transition (w, k) has been returned
RECURSIVE TimesReturned(_, _)
TimesReturned(rs, row) ==
    IF rs = <<>> THEN 0
    ELSE LET a == Head(rs).arrays.next_states
         IN  Cardinality({j \in DOMAIN a : a[j] = row}) + TimesReturned(Tail(rs), row)

\* C1: once a call has returned, every transition collected so far has been
\* returned exactly once over all calls, in a segment of its own worker.
C1_ExactlyOnce ==
    pc = "idle" =>
        /\ \A w \in Procs : \A k \in 1 .. Collected(w) : \A i \in 1 .. n_agents[w] :
              TimesReturned(results, ObsRow(w, k, i)) = 1
        /\ \A c \in DOMAIN results : \A j \in DOMAIN results[c].segments :
              LET s == results[c].segments[j].next_states
              IN  \A x \in DOMAIN s : s[x][1] = s[1][1] /\ s[x][3] = s[1][3]

\* the record of agent i of transition (w, k), as dispatched and as answered
IsRecordOf(arrays, x, w, k, i) ==
    /\ arrays.next_states[x] = ObsRow(w, k, i)
    /\ arrays.states[x] = ObsRow(w, k - 1, i)
    /\ arrays.actions[x] = Act(ObsRow(w, k - 1, i))
    /\ arrays.log_probs[x] = LogP(ObsRow(w, k - 1, i))

\* C2: a transition that was in flight when a call returned and has been
\* collected since is in the output of a call, with the state, action and
\* log-probability dispatched for it.
C2_NoInFlightLoss ==
    pc = "idle" =>
        \A t \in carried :
            t[2] <= Collected(t[1]) =>
                \A i \in 1 .. n_agents[t[1]] :
                    \E c \in DOMAIN results :
                        \E x \in DOMAIN results[c].arrays.next_states :
                            IsRecordOf(results[c].arrays, x, t[1], t[2], i)

\* ------------------------------------------------ C5, C6: termination
\* C5: a collection round ends only with min(min_inference_size, n_workers)
\* records or more, and, every worker answering each action it is sent,
\* every call of collect_timesteps returns.
C5_RoundsEndAndCallReturns ==
    /\ [][(pc = "collect" /\ pc' = "loop") =>
            rc >= Min(min_inference_size, n_procs)]_vars
    /\ (pc # "idle") ~> (pc = "idle")

C5_Witness ==
    /\ min_inference_size > n_procs
    /\ Len(results) = MaxCalls
    /\ \A c \in DOMAIN results : results[c].n >= 1

\* the records the workers other than the stalled one carry per message
RECURSIVE LiveRecords(_)
LiveRecords(p) ==
    IF p >= n_procs THEN 0
    ELSE (IF p = stalled THEN 0 ELSE n_agents[p]) + LiveRecords(p + 1)

C7_NoStarvation ==
    \A w \in Procs : overtaken[w] <= n_procs - 1

C7_Witness ==
    /\ n_procs >= 2
    /\ Len(results) >= 1
    /\ \E w \in Procs : to_parent[w] # <<>> /\ overtaken[w] = n_procs - 1

RoundsVisited == UNION {round_log[x].visited : x \in DOMAIN round_log}

\* C8: n_workers consecutive collection rounds in which every poll found a
\* message have polled every worker.
C8_RoundRobin ==
    (/\ Len(round_log) = n_procs
     /\ \A x \in DOMAIN round_log : round_log[x].allhit /\ round_log[x].visited # {})
        => RoundsVisited = Procs

C8_Witness ==
    /\ n_procs >= 2
    /\ Len(round_log) = n_procs
    /\ \A x \in DOMAIN round_log :
          round_log[x].allhit /\ Cardinality(round_log[x].visited) = 1

\* ------------------------------------------------------- C9: the average
AvgEq(a, b) ==
    IF a = None \/ b = None THEN a = b
    ELSE a[1].num * Pow10(b[1].exp) = b[1].num * Pow10(a[1].exp)

\* the fold of the claim: seed with the first total, smooth with every other
RECURSIVE FoldTotals(_, _)
FoldTotals(avg, totals) ==
    IF totals = <<>> THEN avg
    ELSE FoldTotals(IF avg = None THEN Some(AvgSeed(Head(totals)))
                    ELSE Some(AvgSmooth(avg[1], Head(totals))),
                    Tail(totals))

\* C9: receiving a done message of a worker whose accumulator then holds
\* t_0..t_{k-1} leaves the average at the fold over all of them.
C9_FoldOverEveryTotal ==
    [][(/\ pc = "collect" /\ rc < NObsPerInference
        /\ to_parent[ptr] # <<>>
        /\ Head(to_parent[ptr]).done # 0
        /\ to_parent'[ptr] = Tail(to_parent[ptr]))
       => AvgEq(average_reward',
                FoldTotals(average_reward,
                           AddRewards(ep_rews[ptr], Head(to_parent[ptr]).rews,
                                      MsgAgents(Head(to_parent[ptr])))))]_vars

\* ------------------------------------------------ C10: batch mismatch
\* C10: no dispatch goes through (sends slices, records outbound fields)
\* with an action or log-probability batch that is not as long as the
\* observation batch.
C10_MismatchNeverDispatched ==
    /\ dispatched.actions = dispatched.rows
    /\ dispatched.log_probs = dispatched.rows

\* ------------------------------------------- C11: other message kinds
\* C11: receiving a message whose header is not env-step-data removes that
\* message and moves the cursor on, the round still polling; the collected
\* counts, the output lists, the trajectory buffers, the reward accumulators
\* and the average reward stay as they were.
C11_OtherMessageOnlyDiscarded ==
    [][(/\ pc = "collect" /\ rc < NObsPerInference
        /\ to_parent[ptr] # <<>>
        /\ Head(to_parent[ptr]).header # ENV_STEP_DATA_HEADER
        /\ to_parent'[ptr] = Tail(to_parent[ptr]))
       => /\ pc' = "collect" /\ ptr' = NextPtr(ptr)
          /\ rc' = rc /\ n_collected' = n_collected
          /\ next_obs' = next_obs /\ next_pids' = next_pids
          /\ trajectory_map' = trajectory_map
          /\ completed_trajectories' = completed_trajectories
          /\ ep_rews' = ep_rews
          /\ average_reward' = average_reward]_vars

C11_Witness ==
    /\ noise = 0
    /\ \A w \in Procs : StepData(to_parent[w]) = DOMAIN to_parent[w]
    /\ pc = "collect" /\ rc >= 1
    /\ Len(results) >= 1

\* ------------------------------------------------- C12, C13: cleanup
\* the operations attempted so far, and all of them for workers 0 .. k-1
Attempts == [j \in DOMAIN cleanup_log |-> <<cleanup_log[j].proc, cleanup_log[j].op>>]
AllAttempts(k) ==
    [j \in 1 .. (4 * k) |-> <<(j - 1) \div 4, CleanupOps[((j - 1) % 4) + 1]>>]

\* C12: whichever of the operations raise, no error leaves cleanup, the
\* operations are attempted in the order send-stop, close-parent-end,
\* close-child-end, join, worker after worker, none left out when cleanup
\* returns; and with every worker able to exit, cleanup returns.
C12_CleanupAttemptsEverything ==
    /\ [](/\ cleanup_pc # "raised"
          /\ Len(cleanup_log) <= 4 * n_procs
          /\ Attempts = SubSeq(AllAttempts(n_procs), 1, Len(cleanup_log))
          /\ cleanup_pc = "done" => Attempts = AllAttempts(n_procs))
    /\ (cleanup_pc = "run" /\ hung = 0 - 1) ~> (cleanup_pc = "done")

C12_Witness ==
    /\ cleanup_pc = "done"
    /\ n_procs = MaxProcs
    /\ \A j \in 1 .. 4 : cleanup_log[j].outcome = "raised"
    /\ \A j \in 5 .. 8 : cleanup_log[j].outcome = "ok"

\* the worker has been sent stop, had both channel ends closed and been joined
CleanedUp(w) ==
    \A j \in DOMAIN CleanupOps :
        \E x \in DOMAIN cleanup_log :
            cleanup_log[x].proc = w /\ cleanup_log[x].op = CleanupOps[j]

\* C13: with one worker process that never exits, cleanup still gets to
\* every other worker.
C13_StuckWorkerBlocksNobody ==
    (cleanup_pc = "run" /\ hung # 0 - 1)
        ~> (\A w \in Procs \ {hung} : CleanedUp(w))

\* ---------------------------------------------------- C14: the scenario
\* one single-agent worker, min_inference_size = 1, the first call asks for
\* two timesteps and has returned; the worker answered (1, 0) then (2, 1)
ScenarioRun ==
    /\ n_procs = 1 /\ n_agents[0] = 1 /\ min_inference_size = 1
    /\ pc = "idle" /\ Len(results) = 1 /\ results[1].n = 2
    /\ Len(emitted[0]) >= 2
    /\ emitted[0][1] = [rews |-> <<1>>, done |-> 0]
    /\ emitted[0][2] = [rews |-> <<2>>, done |-> 1]

\* C14: in that scenario the call returns n_collected = 2 and two records,
\* in emission order, with rewards [1, 2], dones [0, 1], truncated [0, 0],
\* and the average reward is 3.
C14_ScenarioOutput ==
    ScenarioRun =>
        /\ results[1].n_collected = 2
        /\ results[1].arrays.next_states = <<ObsRow(0, 1, 1), ObsRow(0, 2, 1)>>
        /\ results[1].arrays.states = <<ObsRow(0, 0, 1), ObsRow(0, 1, 1)>>
        /\ results[1].arrays.rewards = <<1, 2>>
        /\ results[1].arrays.dones = <<0, 1>>
        /\ results[1].arrays.truncated = <<0, 0>>
        /\ Len(results[1].arrays.actions) = 2
        /\ Len(results[1].arrays.log_probs) = 2
        /\ AvgEq(average_reward, Some(AvgSeed(3)))

C14_Witness == ScenarioRun /\ Len(emitted[0]) = 2 /\ average_reward # None

\* ------------------------------------------------ C15: the two halves
\* the step record r joins what was dispatched to worker w for its k-th
\* step with the answer to that step
StepOf(r, w, k) ==
    /\ r.state = ObsBlock(w, k - 1)
    /\ r.action = [i \in 1 .. n_agents[w] |-> Act(ObsRow(w, k - 1, i))]
    /\ r.log_prob = [i \in 1 .. n_agents[w] |-> LogP(ObsRow(w, k - 1, i))]
    /\ r.next_state = ObsBlock(w, k)
    /\ r.reward = emitted[w][k].rews
    /\ r.done = emitted[w][k].done

Matched(r, w) == \E k \in 1 .. env_step[w] : StepOf(r, w, k)

\* C15: every step record of every buffer, open or closed, joins the
\* dispatch half and the answer half of one and the same step of the
\* buffer's worker.
C15_NoMismatchedHalves ==
    /\ \A w \in Procs :
          \A j \in DOMAIN trajectory_map[w].complete_timesteps :
              Matched(trajectory_map[w].complete_timesteps[j], w)
    /\ \A c \in DOMAIN completed_trajectories :
          \A j \in DOMAIN completed_trajectories[c].complete_timesteps :
              \E w \in Procs :
                  Matched(completed_trajectories[c].complete_timesteps[j], w)

\* -------------------------------------------- C16: strict alternation
\* the actions sent to worker w whose answer has not been collected
Outstanding(w) == Len(to_child[w]) + Cardinality(StepData(to_parent[w]))

NoDuplicates(q) == \A a, b \in DOMAIN q : a # b => q[a] # q[b]

\* C16: a worker has at most one outstanding action; the current worker-id
\* list holds no id twice, is as long as the current observation list and
\* names only workers whose last answer has been collected; a round collects
\* (and writes the inbound half for) no worker twice.
C16_StrictAlternation ==
    /\ \A w \in Procs : Outstanding(w) <= 1
    /\ NoDuplicates(current_pids)
    /\ current_obs # None =>
          /\ Len(current_obs[1]) = Len(current_pids)
          /\ \A i \in DOMAIN current_pids : Outstanding(current_pids[i]) = 0
    /\ NoDuplicates(next_pids)
    /\ Len(next_obs) = Len(next_pids)

C16_Witness ==
    /\ n_procs >= 2
    /\ pc = "loop" /\ current_obs # None
    /\ \E w \in Procs : Collected(w) >= 2 /\ Outstanding(w) = 0
    /\ \E w \in Procs : Outstanding(w) = 1

\* ------------------------------------------------- C17: the scatter
\* d_1 + ... + d_(i-1): the rows of the blocks listed before block i
RECURSIVE RowsBefore(_, _)
RowsBefore(obs, i) ==
    IF i <= 1 THEN 0 ELSE Len(obs[i - 1]) + RowsBefore(obs, i - 1)

\* rows RowsBefore(obs, i) + 1 .. RowsBefore(obs, i + 1) of a batch
RowsOf(batch, obs, i) ==
    [r \in 1 .. Len(obs[i]) |-> batch[RowsBefore(obs, i) + r]]

\* C17: a dispatch of the list (w_1, block_1) .. (w_m, block_m) sends worker
\* w_i one message holding the rows of the action batch at the offsets of
\* block_i, writes the same rows of the state, action and log-probability
\* batches to w_i's buffer, uses up the whole batch, and sends nothing to a
\* worker that is not listed.
C17_ScatterToOwners ==
    [][(pc = "loop" /\ pc' = "collect" /\ current_obs # None) =>
        LET obs == current_obs[1]
            batch == Concat(obs)
            actions == [j \in DOMAIN batch |-> Act(batch[j])]
            log_probs == [j \in DOMAIN batch |-> LogP(batch[j])]
        IN  /\ RowsBefore(obs, Len(obs) + 1) = Len(batch)
            /\ \A i \in DOMAIN current_pids :
                  LET w == current_pids[i]
                  IN  /\ RowsOf(batch, obs, i) = obs[i]
                      /\ to_child'[w] = Append(to_child[w],
                            PolicyActionsMessage(RowsOf(actions, obs, i)))
                      /\ trajectory_map'[w].state = Some(RowsOf(batch, obs, i))
                      /\ trajectory_map'[w].action = Some(RowsOf(actions, obs, i))
                      /\ trajectory_map'[w].log_prob = Some(RowsOf(log_probs, obs, i))
            /\ \A w \in Procs :
                  (\A i \in DOMAIN current_pids : current_pids[i] # w) =>
                      /\ to_child'[w] = to_child[w]
                      /\ trajectory_map'[w] = trajectory_map[w]]_vars

C17_Witness ==
    /\ pc = "collect" /\ rc = 0 /\ current_obs = None
    /\ Len(current_pids) = 2
    /\ n_agents[current_pids[1]] = 2
    /\ dispatched.rows = 2 + n_agents[current_pids[2]]
    /\ \A i \in DOMAIN current_pids : to_child[current_pids[i]] # <<>>

\* ---------------------------------------------- C18: segment ends
\* C18: no open buffer holds a step with done = 1; in a closed buffer and
\* in every segment of an output only the final step can have done = 1, and
\* every step before the final one has truncation flag 0.
C18_CutAtEpisodeEnds ==
    /\ \A w \in Procs :
          \A j \in DOMAIN trajectory_map[w].complete_timesteps :
              trajectory_map[w].complete_timesteps[j].done = 0
    /\ \A c \in DOMAIN completed_trajectories :
          LET ts == completed_trajectories[c].complete_timesteps
          IN  \A j \in DOMAIN ts : j < Len(ts) => ts[j].done = 0
    /\ \A c \in DOMAIN results :
          \A j \in DOMAIN results[c].segments :
              LET seg == results[c].segments[j]
              IN  \A x \in DOMAIN seg.dones :
                      x < Len(seg.dones) =>
                          seg.dones[x] = 0 /\ seg.truncated[x] = 0

C18_Witness ==
    \E c \in DOMAIN results :
        \E j \in DOMAIN results[c].segments :
            /\ results[c].segments[j].dones = <<0, 1>>
            /\ j < Len(results[c].segments)
            /\ results[c].segments[j + 1].next_states[1][1]
                   = results[c].segments[j].next_states[1][1]
            /\ results[c].segments[j + 1].next_states[1][3]
                   = results[c].segments[j].next_states[1][3]

\* ------------------------------------------- C19: the boundary flush
\* the records and the segments a buffer holds: one segment per agent of
\* its complete steps, none without a complete step
RecordsIn(t) ==
    IF t.complete_timesteps = <<>> THEN 0
    ELSE Len(t.complete_timesteps) * Len(t.complete_timesteps[1].state)
SegmentsIn(t) ==
    IF t.complete_timesteps = <<>> THEN 0 ELSE Len(t.complete_timesteps[1].state)

RECURSIVE SumOver(_, _, _)
SumOver(Count(_), buffers, j) ==
    IF j > Len(buffers) THEN 0
    ELSE Count(buffers[j]) + SumOver(Count, buffers, j + 1)

OpenBuffers == [i \in 1 .. n_procs |-> trajectory_map[i - 1]]

\* C19: a call that returns puts out exactly the complete steps of the
\* closed and the open buffers, in as many segments as those buffers have
\* agents, none of length zero, every output array of one length; and it
\* leaves every worker with an empty buffer.
C19_BoundaryFlush ==
    [][(pc = "loop" /\ pc' = "idle") =>
        LET out == results'[Len(results')]
            buffers == completed_trajectories \o OpenBuffers
        IN  /\ Len(out.arrays.dones) = SumOver(RecordsIn, buffers, 1)
            /\ Len(out.segments) = SumOver(SegmentsIn, buffers, 1)
            /\ \A j \in DOMAIN out.segments : Len(out.segments[j].dones) >= 1
            /\ \A f \in DOMAIN out.arrays :
                  Len(out.arrays[f]) = Len(out.arrays.dones)
            /\ \A w \in Procs : trajectory_map'[w] = BatchedTrajectory]_vars

C19_Witness ==
    /\ pc = "idle" /\ Len(results) = 1
    /\ carried # {}
    /\ \E w \in Procs :
          /\ Outstanding(w) = 0
          /\ emitted[w] # <<>>
          /\ emitted[w][Len(emitted[w])].done = 1
    /\ Len(results[1].segments) = 1

\* ------------------------------------------------ C20: the overshoot
MinCount == Min(min_inference_size, n_procs)

\* the largest agent count one message carries
MostAgents == CHOOSE a \in {n_agents[w] : w \in Procs} :
                  \A w \in Procs : n_agents[w] <= a

\* C20: a call for n >= 1 timesteps returns at most
\* (n - 1) + (MinCount - 1) + MostAgents; a round never collects more than
\* (MinCount - 1) + MostAgents; and when every message carries one agent a
\* call returns less than n + MinCount and every round returns MinCount.
C20_OvershootBounded ==
    /\ \A c \in DOMAIN results :
          results[c].n >= 1 =>
              results[c].n_collected
                  <= (results[c].n - 1) + (MinCount - 1) + MostAgents
    /\ pc = "collect" => rc <= (MinCount - 1) + MostAgents
    /\ (\A w \in Procs : n_agents[w] = 1) =>
          /\ \A c \in DOMAIN results :
                results[c].n >= 1 =>
                    results[c].n_collected < results[c].n + MinCount
          /\ (pc = "loop" /\ n_collected > 0) => rc = MinCount

C20_Witness ==
    /\ MinCount = 2 /\ MostAgents = 2
    /\ \E c \in DOMAIN results :
          /\ results[c].n >= 1
          /\ results[c].n_collected
                 = (results[c].n - 1) + (MinCount - 1) + MostAgents

====
